---- MODULE Spec2Model ----
(***************************************************************************)
(* The two Streamlit pages of the RAG assistant front end:                 *)
(*   frontend/pages/1_RAG_Assistant.py   (page "rag")                      *)
(*   frontend/pages/1_mo7amAI.py         (page "mo7amAI")                  *)
(* A Streamlit page is a script that is re-run from its first line after   *)
(* every user interaction.  One session of one page is modelled: the user  *)
(* acts on a widget the previous run rendered, the script runs line by     *)
(* line, and the run ends normally ("done") or by an uncaught exception    *)
(* ("aborted").  Widget values, st.session_state and the temporary files   *)
(* on disk outlive a run; the script's own variables do not.  A button     *)
(* returns True only in the run its click started, and only one click      *)
(* starts a run.                                                           *)
(***************************************************************************)
EXTENDS Integers, Sequences, FiniteSets, TLC

\* ---------------------------------------------------------------- bounds
MaxFiles  == 2   \* files held by the uploader at once
MaxLeak   == 1   \* temporary files on disk when an upload step may still raise
MaxExIdx  == 3   \* renderings of the Consultation IA section in a session

\* ------------------------------------------------------------- vocabulary
RAG == "rag"
MO  == "mo7amAI"
PageNames == {RAG, MO}

ACCUEIL == "Accueil"
CONSULT == "Consultation IA"
TARIFS  == "Tarifs"
APROPOS == "A propos"
Options == {ACCUEIL, CONSULT, TARIFS, APROPOS}

ASK_QUESTION == "ask_question"
RUN_RAG      == "run_rag_on_uploaded_docs"
PIPELINE_ASK == "pipeline.ask"
Paths == {ASK_QUESTION, RUN_RAG, PIPELINE_ASK}

Outcomes == {"raise", "empty", "sources"}
RunEnd   == {"done", "aborted"}

\* what the user types: nothing, a blank, a question with a leading blank
Questions == {<<>>, <<" ">>, <<" ", "q">>}

\* the PDF files the user can pick, by number, and the pages each parses to
PagesOf == <<1, 2>>
FileIds == DOMAIN PagesOf
UploadSets == UNION {[1..n -> FileIds] : n \in 0..MaxFiles}

\* ------------------------------------------------------- python strings
\* bool(s) of a str: the empty string is the only falsy one
Truthy(s) == Len(s) > 0

IsSpace(c) == c = " "

RECURSIVE LStrip(_)
LStrip(s) == IF s # <<>> /\ IsSpace(Head(s)) THEN LStrip(Tail(s)) ELSE s

RECURSIVE RStrip(_)
RStrip(s) == IF s # <<>> /\ IsSpace(s[Len(s)])
             THEN RStrip(SubSeq(s, 1, Len(s) - 1)) ELSE s

\* str.strip()
Strip(s) == RStrip(LStrip(s))

\* --------------------------------------------------- st.session_state
REDIRECT_KEY == "_redirect"
EX_IDX_KEY   == "_ex_idx"

Has(ss, k) == k \in DOMAIN ss

Put(ss, k, v) == [x \in DOMAIN ss \cup {k} |-> IF x = k THEN v ELSE ss[x]]

\* mutant of Pop: reads the key and leaves it in place
Pop_Keep(ss, k) == ss

\* st.session_state.pop(k): the mapping without k
Pop(ss, k) == [x \in DOMAIN ss \ {k} |-> ss[x]]

Get(ss, k, default) == IF Has(ss, k) THEN ss[k] ELSE default

\* ------------------------------------------------------- PDF documents
\* the pages stored in a file with this content (0: nothing was written)
Pages(content) == IF content \in FileIds THEN PagesOf[content] ELSE 0

UploadName(f) == [kind |-> "upload", id |-> f]
TmpName(t)    == [kind |-> "tmp", id |-> t]

\* PyPDFLoader(path).load(): one document per page, source = the path given
LoadDocs(path, content) ==
    [p \in 1..Pages(content) |-> [source |-> TmpName(path), page |-> p - 1]]

\* mutant of TagDocs: the loader's source (the temporary path) is kept
TagDocs_Untagged(ds, f) == ds

\* for doc in docs: doc.metadata["source"] = uploaded_file.name
TagDocs(ds, f) == [p \in 1..Len(ds) |-> [ds[p] EXCEPT !.source = UploadName(f)]]

\* R = frontend/pages/1_RAG_Assistant.py, M = frontend/pages/1_mo7amAI.py
VARIABLES
    page,          \* the page script this session runs
    pc,            \* the script's position (R 65-171, M 67-202)
    clicked,       \* the st.button whose click started this run, "none" for
                   \* another event (R 65, 141; M 90, 129)
    rendered,      \* what the current (between runs: the last) run rendered
    calls,         \* Query Service calls started in this run, per call site
    outstanding,   \* Query Service calls started and not yet returned
    result,        \* outcome of this run's call, per call site ("none": no call)
    gQuestion,     \* value of the text input of R 52
    eQuestion,     \* value of the text input of R 139
    uploaded,      \* uploaded_files, the files held by st.file_uploader (R 107)
    disk,          \* the temporary files on disk: name -> content (R 117-131)
    session_docs,  \* script variable (R 112)
    idx,           \* position of the for loop of R 115 in uploaded_files
    tmp,           \* name of the open NamedTemporaryFile, 0 for none (R 117)
    tmp_path,      \* script variable, 0 while unbound (R 119)
    docs,          \* script variable (R 123)
    created,       \* history: temporary files this run created (R 117)
    uploadRaised,  \* history: an exception left the upload loop in this run
    menuSel,       \* the entry selected in the option_menu component (M 68)
    nav,           \* script variable, "unset" before M 68
    session_state, \* st.session_state (M 77-80, 123-125)
    mQuestion,     \* value of the text input of M 127
    prevNav,       \* history: nav at the end of the previous run
    menuTouched,   \* history: this run was started by a menu selection
    prevRaised     \* history: a Query Service call raised in an earlier run

vars == <<page, pc, clicked, rendered, calls, outstanding, result, gQuestion,
          eQuestion, uploaded, disk, session_docs, idx, tmp, tmp_path, docs,
          created, uploadRaised, menuSel, nav, session_state, mQuestion,
          prevNav, menuTouched, prevRaised>>

ragWidgets == <<gQuestion, eQuestion, uploaded>>
ragScript  == <<session_docs, idx, tmp, tmp_path, docs, created, uploadRaised>>
moScript   == <<nav, prevNav, menuTouched>>
moWidgets  == <<menuSel, mQuestion>>
query      == <<calls, outstanding, result>>

EmptyState == [k \in {} |-> 0]
NoFiles == [t \in {} |-> 0]
NoCalls  == [p \in Paths |-> 0]
NoResult == [p \in Paths |-> "none"]

FirstLine(pg) == IF pg = RAG THEN "g_guard" ELSE "menu"

Init ==
    /\ page \in PageNames
    /\ pc = FirstLine(page)
    /\ clicked = "none"
    /\ rendered = {}
    /\ calls = NoCalls
    /\ outstanding = 0
    /\ result = NoResult
    /\ gQuestion = <<>>
    /\ eQuestion = <<>>
    /\ uploaded = <<>>
    /\ disk = NoFiles
    /\ session_docs = <<>>
    /\ idx = 0
    /\ tmp = 0
    /\ tmp_path = 0
    /\ docs = <<>>
    /\ created = {}
    /\ uploadRaised = FALSE
    /\ menuSel = ACCUEIL
    /\ nav = "unset"
    /\ session_state = EmptyState
    /\ mQuestion = <<>>
    /\ prevNav = "unset"
    /\ menuTouched = FALSE
    /\ prevRaised = FALSE

\* A rerun starts: the script's namespace is fresh, nothing is rendered yet.
StartRun(btn) ==
    /\ pc \in RunEnd
    /\ pc' = FirstLine(page)
    /\ clicked' = btn
    /\ rendered' = {}
    /\ calls' = NoCalls
    /\ outstanding' = 0
    /\ result' = NoResult
    /\ session_docs' = <<>>
    /\ idx' = 0
    /\ tmp' = 0
    /\ tmp_path' = 0
    /\ docs' = <<>>
    /\ created' = {}
    /\ uploadRaised' = FALSE
    /\ nav' = "unset"
    /\ prevNav' = nav
    /\ prevRaised' = (prevRaised \/ \E p \in Paths : result[p] = "raise")
    /\ UNCHANGED <<page, disk>>

\* One user interaction: the widget values it changes, then the rerun.
Event(btn, gq, eq, up, ms, ss, mq, touched) ==
    /\ StartRun(btn)
    /\ gQuestion' = gq
    /\ eQuestion' = eq
    /\ uploaded' = up
    /\ menuSel' = ms
    /\ session_state' = ss
    /\ mQuestion' = mq
    /\ menuTouched' = touched

\* ------------------------------------------------ rag: user interactions
EditGlobalQuestion(q) ==
    /\ page = RAG
    /\ q # gQuestion
    /\ Event("none", q, eQuestion, uploaded, menuSel, session_state, mQuestion, FALSE)

\* the button of line 65; the question typed just before goes with the click
ClickGlobalButton(q) ==
    /\ page = RAG
    /\ Event("gbtn", q, eQuestion, uploaded, menuSel, session_state, mQuestion, FALSE)

ChangeUploads(fs) ==
    /\ page = RAG
    /\ fs # uploaded
    /\ Event("none", gQuestion, eQuestion, fs, menuSel, session_state, mQuestion, FALSE)

EditEphemeralQuestion(q) ==
    /\ page = RAG
    /\ "e_section" \in rendered
    /\ q # eQuestion
    /\ Event("none", gQuestion, q, uploaded, menuSel, session_state, mQuestion, FALSE)

\* the button of line 141, there to click only if the last run rendered it
ClickEphemeralButton(q) ==
    /\ page = RAG
    /\ "e_section" \in rendered
    /\ Event("ebtn", gQuestion, q, uploaded, menuSel, session_state, mQuestion, FALSE)

\* ------------------------------------------------------ rag: the script
\* except Exception: the handler ends and the script goes on after the try
\* mutant of ExceptHandler: the exception leaves the script
ExceptHandler_Reraise(next) == "aborted"

ExceptHandler(next) == next

\* mutant of GlobalGuard: the call no longer waits for the button
GlobalGuard_NoButton == Truthy(gQuestion)

\* line 65: st.button(...) and question
GlobalGuard == clicked = "gbtn" /\ Truthy(gQuestion)

\* line 141: st.button(...) and question
EphemeralGuard == clicked = "ebtn" /\ Truthy(eQuestion)

StartCall(p) ==
    /\ calls' = [calls EXCEPT ![p] = @ + 1]
    /\ outstanding' = outstanding + 1
    /\ UNCHANGED result

EndCall(p, o) ==
    /\ result' = [result EXCEPT ![p] = o]
    /\ outstanding' = outstanding - 1
    /\ UNCHANGED calls

GlobalQuery ==
    /\ page = RAG /\ pc = "g_guard"
    /\ IF GlobalGuard
       THEN pc' = "g_call" /\ StartCall(ASK_QUESTION)
       ELSE pc' = "upload" /\ UNCHANGED query
    /\ UNCHANGED <<page, clicked, rendered, ragWidgets, disk, ragScript,
                   moWidgets, moScript, session_state, prevRaised>>

GlobalRendering(o) ==
    CASE o = "raise"   -> {"g_error", "g_trace"}
      [] o = "empty"   -> {"g_success", "g_answer", "g_sources_header", "g_no_sources"}
      [] o = "sources" -> {"g_success", "g_answer", "g_sources_header", "g_source_item"}

GlobalReturn(o) ==
    /\ page = RAG /\ pc = "g_call"
    /\ EndCall(ASK_QUESTION, o)
    /\ rendered' = rendered \cup GlobalRendering(o)
    /\ pc' = IF o = "raise" THEN ExceptHandler("upload") ELSE "upload"
    /\ UNCHANGED <<page, clicked, ragWidgets, disk, ragScript,
                   moWidgets, moScript, session_state, prevRaised>>

UploadSection ==
    /\ page = RAG /\ pc = "upload"
    /\ rendered' = rendered \cup {"warning", "uploader"}
    /\ session_docs' = <<>>
    /\ IF uploaded # <<>>
       THEN idx' = 1 /\ pc' = "create"
       ELSE idx' = idx /\ pc' = "e_section"
    /\ UNCHANGED <<page, clicked, query, ragWidgets, disk, tmp, tmp_path, docs,
                   created, uploadRaised, moWidgets, moScript, session_state,
                   prevRaised>>

\* a name no file on disk has
FreshTmp == CHOOSE t \in 1..(Cardinality(DOMAIN disk) + 1) :
                /\ t \notin DOMAIN disk
                /\ \A u \in 1..(t - 1) : u \in DOMAIN disk

WriteFile(d, t, content) == [x \in DOMAIN d \cup {t} |-> IF x = t THEN content ELSE d[x]]

\* os.remove(path)
Remove(d, t) == [x \in DOMAIN d \ {t} |-> d[x]]

\* an exception of the upload loop: nothing catches it, the run ends
MayRaise == Cardinality(DOMAIN disk) <= MaxLeak

UploadAbort ==
    /\ pc' = "aborted"
    /\ uploadRaised' = TRUE

CreateTemp ==
    /\ page = RAG /\ pc = "create"
    /\ tmp' = FreshTmp
    /\ disk' = WriteFile(disk, FreshTmp, 0)
    /\ created' = created \cup {FreshTmp}
    /\ pc' = "write"
    /\ UNCHANGED <<page, clicked, rendered, query, ragWidgets, session_docs, idx,
                   tmp_path, docs, uploadRaised, moWidgets, moScript,
                   session_state, prevRaised>>

WriteTemp ==
    /\ page = RAG /\ pc = "write"
    /\ disk' = WriteFile(disk, tmp, uploaded[idx])
    /\ tmp_path' = tmp
    /\ tmp' = 0
    /\ pc' = "load"
    /\ UNCHANGED <<page, clicked, rendered, query, ragWidgets, session_docs, idx,
                   docs, created, uploadRaised, moWidgets, moScript,
                   session_state, prevRaised>>

WriteRaise ==
    /\ page = RAG /\ pc = "write"
    /\ MayRaise
    /\ UploadAbort
    /\ tmp' = 0
    /\ UNCHANGED <<page, clicked, rendered, query, ragWidgets, disk, session_docs,
                   idx, tmp_path, docs, created, moWidgets, moScript,
                   session_state, prevRaised>>

LoadPdf ==
    /\ page = RAG /\ pc = "load"
    /\ docs' = LoadDocs(tmp_path, disk[tmp_path])
    /\ pc' = "tag"
    /\ UNCHANGED <<page, clicked, rendered, query, ragWidgets, disk, session_docs,
                   idx, tmp, tmp_path, created, uploadRaised, moWidgets, moScript,
                   session_state, prevRaised>>

LoadRaise ==
    /\ page = RAG /\ pc = "load"
    /\ MayRaise
    /\ UploadAbort
    /\ UNCHANGED <<page, clicked, rendered, query, ragWidgets, disk, session_docs,
                   idx, tmp, tmp_path, docs, created, moWidgets, moScript,
                   session_state, prevRaised>>

TagAndExtend ==
    /\ page = RAG /\ pc = "tag"
    /\ session_docs' = session_docs \o TagDocs(docs, uploaded[idx])
    /\ pc' = "remove"
    /\ UNCHANGED <<page, clicked, rendered, query, ragWidgets, disk, idx, tmp,
                   tmp_path, docs, created, uploadRaised, moWidgets, moScript,
                   session_state, prevRaised>>

RemoveTemp ==
    /\ page = RAG /\ pc = "remove"
    /\ disk' = Remove(disk, tmp_path)
    /\ IF idx < Len(uploaded)
       THEN idx' = idx + 1 /\ pc' = "create" /\ UNCHANGED rendered
       ELSE idx' = idx /\ pc' = "e_section" /\ rendered' = rendered \cup {"loaded"}
    /\ UNCHANGED <<page, clicked, query, ragWidgets, session_docs, tmp, tmp_path,
                   docs, created, uploadRaised, moWidgets, moScript,
                   session_state, prevRaised>>

EphemeralSection ==
    /\ page = RAG /\ pc = "e_section"
    /\ IF session_docs # <<>>
       THEN /\ rendered' = rendered \cup {"e_section"}
            /\ IF EphemeralGuard
               THEN pc' = "e_call" /\ StartCall(RUN_RAG)
               ELSE pc' = "footer" /\ UNCHANGED query
       ELSE pc' = "footer" /\ UNCHANGED <<rendered, query>>
    /\ UNCHANGED <<page, clicked, ragWidgets, disk, ragScript, moWidgets,
                   moScript, session_state, prevRaised>>

EphemeralRendering(o) ==
    CASE o = "raise"   -> {"e_error"}
      [] o = "empty"   -> {"e_success", "e_answer", "e_sources_header"}
      [] o = "sources" -> {"e_success", "e_answer", "e_sources_header", "e_source_item"}

EphemeralReturn(o) ==
    /\ page = RAG /\ pc = "e_call"
    /\ EndCall(RUN_RAG, o)
    /\ rendered' = rendered \cup EphemeralRendering(o)
    /\ pc' = IF o = "raise" THEN ExceptHandler("footer") ELSE "footer"
    /\ UNCHANGED <<page, clicked, ragWidgets, disk, ragScript, moWidgets,
                   moScript, session_state, prevRaised>>

RagFooter ==
    /\ page = RAG /\ pc = "footer"
    /\ rendered' = rendered \cup {"footer"}
    /\ pc' = "done"
    /\ UNCHANGED <<page, clicked, query, ragWidgets, disk, ragScript, moWidgets,
                   moScript, session_state, prevRaised>>

RagNext ==
    \/ \E q \in Questions : EditGlobalQuestion(q)
    \/ \E q \in Questions : ClickGlobalButton(q)
    \/ \E fs \in UploadSets : ChangeUploads(fs)
    \/ \E q \in Questions : EditEphemeralQuestion(q)
    \/ \E q \in Questions : ClickEphemeralButton(q)
    \/ GlobalQuery
    \/ \E o \in Outcomes : GlobalReturn(o)
    \/ UploadSection
    \/ CreateTemp
    \/ WriteTemp
    \/ WriteRaise
    \/ LoadPdf
    \/ LoadRaise
    \/ TagAndExtend
    \/ RemoveTemp
    \/ EphemeralSection
    \/ \E o \in Outcomes : EphemeralReturn(o)
    \/ RagFooter

\* -------------------------------------------- mo7amAI: user interactions
\* the session goes on while the example counter is below its bound
MoIdle == page = MO /\ Get(session_state, EX_IDX_KEY, 0) < MaxExIdx

SelectMenu(m) ==
    /\ MoIdle
    /\ m # menuSel
    /\ Event("none", gQuestion, eQuestion, uploaded, m, session_state, mQuestion, TRUE)

\* def redirect(page_name): st.session_state["_redirect"] = page_name
redirect(ss, page_name) == Put(ss, REDIRECT_KEY, page_name)

\* the button of line 90: its on_click callback runs, then the script
ClickCTA ==
    /\ MoIdle
    /\ "cta" \in rendered
    /\ Event("cta", gQuestion, eQuestion, uploaded, menuSel,
             redirect(session_state, CONSULT), mQuestion, FALSE)

EditMoQuestion(q) ==
    /\ MoIdle
    /\ CONSULT \in rendered
    /\ q # mQuestion
    /\ Event("none", gQuestion, eQuestion, uploaded, menuSel, session_state, q, FALSE)

\* the button of line 129, there to click only if the last run rendered it
ClickAsk(q) ==
    /\ MoIdle
    /\ CONSULT \in rendered
    /\ Event("ask", gQuestion, eQuestion, uploaded, menuSel, session_state, q, FALSE)

\* the form of line 186: submitting it reruns the script
SubmitContact ==
    /\ MoIdle
    /\ APROPOS \in rendered
    /\ Event("none", gQuestion, eQuestion, uploaded, menuSel, session_state, mQuestion, FALSE)

\* -------------------------------------------------- mo7amAI: the script
MenuNav ==
    /\ page = MO /\ pc = "menu"
    /\ nav' = menuSel
    /\ pc' = "redirect"
    /\ UNCHANGED <<page, clicked, rendered, query, ragWidgets, disk, ragScript,
                   moWidgets, session_state, prevNav, menuTouched, prevRaised>>

TakeRedirect ==
    /\ page = MO /\ pc = "redirect"
    /\ IF Has(session_state, REDIRECT_KEY)
       THEN /\ nav' = session_state[REDIRECT_KEY]
            /\ session_state' = Pop(session_state, REDIRECT_KEY)
       ELSE UNCHANGED <<nav, session_state>>
    /\ pc' = "home"
    /\ UNCHANGED <<page, clicked, rendered, query, ragWidgets, disk, ragScript,
                   moWidgets, prevNav, menuTouched, prevRaised>>

Home ==
    /\ page = MO /\ pc = "home"
    /\ rendered' = IF nav = ACCUEIL THEN rendered \cup {ACCUEIL, "cta"} ELSE rendered
    /\ pc' = "consult"
    /\ UNCHANGED <<page, clicked, query, ragWidgets, disk, ragScript, moWidgets,
                   moScript, session_state, prevRaised>>

\* line 129: st.button(...) and question.strip()
MoGuard == clicked = "ask" /\ Truthy(Strip(mQuestion))

Consultation ==
    /\ page = MO /\ pc = "consult"
    /\ IF nav = CONSULT
       THEN /\ rendered' = rendered \cup {CONSULT}
            /\ session_state' = Put(session_state, EX_IDX_KEY,
                                    Get(session_state, EX_IDX_KEY, 0) + 1)
            /\ IF MoGuard
               THEN pc' = "m_call" /\ StartCall(PIPELINE_ASK)
               ELSE pc' = "tarifs" /\ UNCHANGED query
       ELSE pc' = "tarifs" /\ UNCHANGED <<rendered, session_state, query>>
    /\ UNCHANGED <<page, clicked, ragWidgets, disk, ragScript, moWidgets,
                   moScript, prevRaised>>

MoRendering(o) ==
    CASE o = "raise"   -> {"m_error", "m_trace"}
      [] o = "empty"   -> {"m_success", "m_answer", "m_sources_header", "m_no_sources"}
      [] o = "sources" -> {"m_success", "m_answer", "m_sources_header", "m_source_item"}

MoReturn(o) ==
    /\ page = MO /\ pc = "m_call"
    /\ EndCall(PIPELINE_ASK, o)
    /\ rendered' = rendered \cup MoRendering(o)
    /\ pc' = IF o = "raise" THEN ExceptHandler("tarifs") ELSE "tarifs"
    /\ UNCHANGED <<page, clicked, ragWidgets, disk, ragScript, moWidgets,
                   moScript, session_state, prevRaised>>

Tarifs ==
    /\ page = MO /\ pc = "tarifs"
    /\ rendered' = IF nav = TARIFS THEN rendered \cup {TARIFS} ELSE rendered
    /\ pc' = "apropos"
    /\ UNCHANGED <<page, clicked, query, ragWidgets, disk, ragScript, moWidgets,
                   moScript, session_state, prevRaised>>

APropos ==
    /\ page = MO /\ pc = "apropos"
    /\ rendered' = IF nav = APROPOS THEN rendered \cup {APROPOS} ELSE rendered
    /\ pc' = "footer"
    /\ UNCHANGED <<page, clicked, query, ragWidgets, disk, ragScript, moWidgets,
                   moScript, session_state, prevRaised>>

MoFooter ==
    /\ page = MO /\ pc = "footer"
    /\ rendered' = rendered \cup {"footer"}
    /\ pc' = "done"
    /\ UNCHANGED <<page, clicked, query, ragWidgets, disk, ragScript, moWidgets,
                   moScript, session_state, prevRaised>>

MoNext ==
    \/ \E m \in Options : SelectMenu(m)
    \/ ClickCTA
    \/ \E q \in Questions : EditMoQuestion(q)
    \/ \E q \in Questions : ClickAsk(q)
    \/ SubmitContact
    \/ MenuNav
    \/ TakeRedirect
    \/ Home
    \/ Consultation
    \/ \E o \in Outcomes : MoReturn(o)
    \/ Tarifs
    \/ APropos
    \/ MoFooter

Next == RagNext \/ MoNext

Spec == Init /\ [][Next]_vars

\* ================================================================ claims
QueryRaised == \E p \in Paths : result[p] = "raise"

ErrorItem(p) ==
    CASE p = ASK_QUESTION -> "g_error" [] p = RUN_RAG -> "e_error" [] p = PIPELINE_ASK -> "m_error"

TraceItem(p) ==
    CASE p = ASK_QUESTION -> "g_trace" [] p = RUN_RAG -> "e_trace" [] p = PIPELINE_ASK -> "m_trace"

NoSourcesItem(p) ==
    CASE p = ASK_QUESTION -> "g_no_sources" [] p = RUN_RAG -> "e_no_sources"
      [] p = PIPELINE_ASK -> "m_no_sources"

\* C1: when a run of the RAG Assistant page ends, normally or by an exception,
\* none of the temporary files that run created is still on disk.
C1_NoTempFileLeftAtRunEnd ==
    pc \in RunEnd => created \cap DOMAIN disk = {}

\* C2: on each of the three query paths an exception of the Query Service call
\* is caught where the call is made and shown as an error message and as a
\* diagnostic trace; it never ends the run.
C2_FailureShownWithTrace ==
    \A p \in Paths :
        result[p] = "raise" =>
            /\ ErrorItem(p) \in rendered
            /\ TraceItem(p) \in rendered
            /\ (pc = "aborted" => uploadRaised)

\* C3: on each of the three query paths a result whose source_documents is
\* empty is rendered without an error and with an explicit "no sources" notice.
C3_EmptySourcesNotice ==
    \A p \in Paths :
        result[p] = "empty" =>
            /\ ErrorItem(p) \notin rendered
            /\ NoSourcesItem(p) \in rendered

RECURSIVE ExpectedDocs(_)
ExpectedDocs(fs) ==
    IF fs = <<>> THEN <<>>
    ELSE [p \in 1..PagesOf[Head(fs)] |-> [source |-> UploadName(Head(fs)), page |-> p - 1]]
         \o ExpectedDocs(Tail(fs))

RECURSIVE TotalPages(_)
TotalPages(fs) == IF fs = <<>> THEN 0 ELSE PagesOf[Head(fs)] + TotalPages(Tail(fs))

UploadLoopDone == page = RAG /\ pc \in {"e_section", "e_call", "footer", "done"}

\* C4: once the upload loop has gone through the N uploaded files, session_docs
\* holds exactly the P pages of those files, in upload order, each with the name
\* of its uploaded file as source -- whatever earlier runs loaded.
C4_SessionDocsArePagesOfUploads ==
    UploadLoopDone =>
        /\ Len(session_docs) = TotalPages(uploaded)
        /\ session_docs = ExpectedDocs(uploaded)

C4_Witness ==
    /\ pc = "e_section"
    /\ Len(uploaded) = 2
    /\ uploaded[1] # uploaded[2]
    /\ Len(session_docs) = 3
    /\ session_docs[1].source = UploadName(uploaded[1])

\* C5: in a run in which run_rag_on_uploaded_docs is invoked, no temporary file
\* created by the upload loop is on disk when the call is made, nor afterwards.
C5_NoTempFileAtEphemeralQuery ==
    calls[RUN_RAG] > 0 => DOMAIN disk = {}

\* "the button pressed with a non-empty question", a run after a failed one:
\* the call is made again.
RetryInvokes ==
    prevRaised =>
        /\ (page = RAG /\ pc # "g_guard" /\ clicked = "gbtn" /\ Truthy(gQuestion)
               => calls[ASK_QUESTION] = 1)
        /\ ("e_section" \in rendered /\ clicked = "ebtn" /\ Truthy(eQuestion)
               => calls[RUN_RAG] = 1)
        /\ (CONSULT \in rendered /\ clicked = "ask" /\ Truthy(Strip(mQuestion))
               => calls[PIPELINE_ASK] = 1)

C7_OneCallPerRun ==
    /\ calls[ASK_QUESTION] + calls[RUN_RAG] <= 1
    /\ calls[PIPELINE_ASK] <= 1
    /\ outstanding <= 1

C7_Witness ==
    /\ pc = "e_call"
    /\ outstanding = 1
    /\ Truthy(gQuestion)
    /\ calls[ASK_QUESTION] = 0

\* C8: on the mo7amAI page, while the user selects no menu entry, a run that
\* follows a run showing Consultation IA shows Consultation IA again, and if it
\* was started by the answer button with a non-empty question it invokes
\* pipeline.ask.
C8_ConsultationStays ==
    (page = MO /\ pc = "done" /\ prevNav = CONSULT /\ ~menuTouched) =>
        /\ nav = CONSULT
        /\ CONSULT \in rendered
        /\ (clicked = "ask" /\ Truthy(Strip(mQuestion)) => calls[PIPELINE_ASK] = 1)

\* C9: on the mo7amAI page "_redirect" is in the session state only between a
\* click on the home page button and line 80 of the run it starts, so it is
\* absent at the end of every run; nav is one of the four menu options; a run
\* renders exactly one of the four sections, the one nav names.
C9_RedirectOneShot ==
    /\ (Has(session_state, REDIRECT_KEY) =>
            clicked = "cta" /\ pc \in {"menu", "redirect"})
    /\ (pc \in RunEnd => ~Has(session_state, REDIRECT_KEY))
    /\ (page = MO /\ pc # "menu" => nav \in Options)
    /\ (page = MO /\ pc = "done" =>
            /\ Cardinality(rendered \cap Options) = 1
            /\ rendered \cap Options = {nav})

C9_Witness ==
    /\ pc = "done"
    /\ clicked = "cta"
    /\ menuSel = ACCUEIL
    /\ nav = CONSULT
    /\ rendered \cap Options = {CONSULT}
    /\ ~Has(session_state, REDIRECT_KEY)

\* C10: a question that is empty or only whitespace never reaches the Query
\* Service on any of the three paths, and run_rag_on_uploaded_docs is not called
\* with an empty session_docs.
C10_BlankQuestionNeverSent ==
    /\ (calls[ASK_QUESTION] > 0 => Truthy(Strip(gQuestion)))
    /\ (calls[RUN_RAG] > 0 => Truthy(Strip(eQuestion)) /\ session_docs # <<>>)
    /\ (calls[PIPELINE_ASK] > 0 => Truthy(Strip(mQuestion)))

====
